---------------------------- MODULE Spec2Model ----------------------------
(***************************************************************************)
(* A model of check_broken_images.py: the storage classifier, the domain   *)
(* policy, the reachability checker, the page pipeline, the sitemap walker *)
(* and the report writer.                                                  *)
(*                                                                         *)
(* Text is modelled as a sequence of one-character strings, so that        *)
(* lower(), strip(), split(), "in" and slicing are computed and not        *)
(* assumed.                                                                *)
(***************************************************************************)
EXTENDS Integers, Sequences, FiniteSets, Bags, TLC

VARIABLES
  ALLOWED_IMG_DOMAINS,  \* line 97: the allow-list, set once at start-up
  call,                 \* a pure function under study and its argument
  ret,                  \* what that function returned ("pending" before)
  mode,                 \* what the user types at the mode prompt (line 380)
  pc,                   \* where the main thread is
  sitemap_urls,         \* line 338: the child sitemaps the root lists
  si,                   \* the index of the child sitemap the loop is at
  loc_tags,             \* line 353: the page URLs still to be submitted
  futures,              \* every task submitted to the executor, in order
  broken_images,        \* the records the main thread has collected
  pl,                   \* per thread: its scrape_and_check_images call
  report,               \* the calls of save_to_csv, in order
  children,             \* per child sitemap reached: how its fetch ended
  root,                 \* how the fetch of the main sitemap ended
  env                   \* the site: the pages it serves, the statuses it answers

runVars == << mode, pc, sitemap_urls, si, loc_tags, futures, broken_images,
              pl, report, children, root, env >>

vars == << ALLOWED_IMG_DOMAINS, call, ret, mode, pc, sitemap_urls, si,
           loc_tags, futures, broken_images, pl, report, children, root,
           env >>

(***************************************************************************)
(* Text: str.lower, str.strip, str.split, "in", str.find, startswith.      *)
(***************************************************************************)
UpperCase == <<"A","B","C","D","E","F","G","H","I","J","K","L","M",
               "N","O","P","Q","R","S","T","U","V","W","X","Y","Z">>

LowerCase == <<"a","b","c","d","e","f","g","h","i","j","k","l","m",
               "n","o","p","q","r","s","t","u","v","w","x","y","z">>

Digits == {"0","1","2","3","4","5","6","7","8","9"}

LowerChar(c) ==
  IF \E i \in 1..Len(UpperCase) : UpperCase[i] = c
  THEN LowerCase[CHOOSE i \in 1..Len(UpperCase) : UpperCase[i] = c]
  ELSE c

Lower(s) == [i \in 1..Len(s) |-> LowerChar(s[i])]

\* sub in s
Contains(sub, s) ==
  \E i \in 0..(Len(s) - Len(sub)) : SubSeq(s, i + 1, i + Len(sub)) = sub

StartsWith(s, prefix) ==
  Len(s) >= Len(prefix) /\ SubSeq(s, 1, Len(prefix)) = prefix

\* s.find(c, start) for a single character, 1-based; 0 when absent
Find(s, c, start) ==
  IF \E i \in start..Len(s) : s[i] = c
  THEN CHOOSE i \in start..Len(s) : s[i] = c /\ \A j \in start..(i - 1) : s[j] # c
  ELSE 0

Tail0(s, from) == SubSeq(s, from, Len(s))

IsSpace(c) == c = " "

RECURSIVE LStrip(_)
LStrip(s) == IF s # <<>> /\ IsSpace(s[1]) THEN LStrip(Tail(s)) ELSE s

RECURSIVE RStrip(_)
RStrip(s) ==
  IF s # <<>> /\ IsSpace(s[Len(s)]) THEN RStrip(SubSeq(s, 1, Len(s) - 1)) ELSE s

Strip(s) == RStrip(LStrip(s))

\* s.split(sep) for a single-character separator
RECURSIVE Split(_, _)
Split(s, sep) ==
  LET i == Find(s, sep, 1)
  IN  IF i = 0 THEN << s >>
      ELSE << SubSeq(s, 1, i - 1) >> \o Split(Tail0(s, i + 1), sep)

(***************************************************************************)
(* Configuration (lines 58-98).                                            *)
(***************************************************************************)
default_domains ==
  << <<"e","x","a","m","p","l","e",".","c","o","m">>,
     <<"c","d","n",".","e","x","a","m","p","l","e",".","c","o","m">> >>

get_allowed_domains(user_input) ==
  LET stripped == Strip(user_input)
      parts == Split(stripped, ",")
  IN  IF stripped # <<>>
      THEN [i \in 1..Len(parts) |-> Strip(parts[i])]
      ELSE default_domains

STORAGE_CLASSIFICATION ==
  << [key |-> <<"s","3",".","a","m","a","z","o","n","a","w","s",".","c","o","m">>,
      classification |-> "Amazon Web Services"],
     [key |-> <<"d","a","t","a",":","i","m","a","g","e">>,
      classification |-> "Base64 Encoded Image"],
     [key |-> <<"b","l","o","b",":">>,
      classification |-> "Blob"],
     [key |-> <<"b","o","x",".","c","o","m">>,
      classification |-> "Box"],
     [key |-> <<"c","o","n","f","l","u","e","n","c","e">>,
      classification |-> "Confluence"],
     [key |-> <<"e","t","r","a","c","k",":">>,
      classification |-> "Etrack"],
     [key |-> <<"g","o","o","g","l","e","u","s","e","r","c","o","n","t","e","n","t">>,
      classification |-> "Google CDN"],
     [key |-> <<"c","h","a","t",".","g","o","o","g","l","e",".","c","o","m">>,
      classification |-> "Google Chat"],
     [key |-> <<"m","a","i","l",".","g","o","o","g","l","e",".","c","o","m">>,
      classification |-> "Google Mail"],
     [key |-> <<"g","s","t","a","t","i","c",".","c","o","m">>,
      classification |-> "Google Static Content"],
     [key |-> <<"i","m","g","u","r">>,
      classification |-> "Imgur"],
     [key |-> <<"j","i","r","a">>,
      classification |-> "JIRA"],
     [key |-> <<"c",":","\\">>,
      classification |-> "Local"],
     [key |-> <<"f","i","l","e",":","/","/","/">>,
      classification |-> "Local"],
     [key |-> <<"w","p","-","c","o","n","t","e","n","t">>,
      classification |-> "WordPress"],
     [key |-> <<"z","e","n","d","e","s","k">>,
      classification |-> "Zendesk"] >>

ClassifyFragments ==
  { <<"h","t","t","p","s",":","/","/","s","3",".","a","m","a","z","o","n","a","w","s",".","c","o","m","/">>,
    <<"d","a","t","a",":","i","m","a","g","e","/","p","n","g",";","b","a","s","e","6","4",",">>,
    <<"B","L","O","B",":">>,
    <<"B","o","x",".","c","o","m","/">>,
    <<"c","o","n","f","l","u","e","n","c","e",".">>,
    <<"e","t","r","a","c","k",":">>,
    <<"G","o","o","g","l","e","U","s","e","r","C","o","n","t","e","n","t">>,
    <<"c","h","a","t",".","g","o","o","g","l","e",".","c","o","m">>,
    <<"m","a","i","l",".","G","o","o","g","l","e",".","c","o","m">>,
    <<"g","s","t","a","t","i","c",".","c","o","m">>,
    <<"I","m","g","u","r">>,
    <<"/","J","I","R","A","/">>,
    <<"C",":","\\">>,
    <<"f","i","l","e",":","/","/","/">>,
    <<"w","p","-","c","o","n","t","e","n","t","/">>,
    <<"z","e","n","d","e","s","k">>,
    <<"x",".","p","n","g">> }

(***************************************************************************)
(* classify_image_storage (lines 109-123): the first entry of the table,   *)
(* in declaration order, whose key is in the lowercased URL.               *)
(***************************************************************************)
RECURSIVE ClassifyFrom(_, _)
ClassifyFrom(k, lower_url) ==
  IF k > Len(STORAGE_CLASSIFICATION) THEN "Other"
  ELSE IF Contains(Lower(STORAGE_CLASSIFICATION[k].key), lower_url)
       THEN STORAGE_CLASSIFICATION[k].classification
       ELSE ClassifyFrom(k + 1, lower_url)

classify_image_storage_cased(url) == ClassifyFrom(1, url)

classify_image_storage(url) == ClassifyFrom(1, Lower(url))

UserInputs ==
  { <<>>,
    <<" "," ">>,
    <<"E","x",".","c","o">>,
    <<"e","x",".","c","o",","," ">>,
    <<" ","c","d","n",".","e","x",".","c","o"," ",",","b",".","i","o">>,
    <<",">> }

DomainUrls ==
  { <<"h","t","t","p",":","/","/","e","x",".","c","o","/","a",".","p","n","g">>,
    <<"H","T","T","P",":","/","/","C","D","N",".","E","X",".","C","O","/","a">>,
    <<"h","t","t","p","s",":","/","/","e","v","i","l","-","e","x",".","c","o",".","b",".","i","o","/","x">>,
    <<"/","/","e","x",".","c","o","/","a">>,
    <<"/","e","x",".","c","o","/","a",".","p","n","g">>,
    <<"e","x",".","c","o","/","a",".","p","n","g">>,
    <<"h","t","t","p",":","e","x",".","c","o","/","a">>,
    <<"d","a","t","a",":","i","m","a","g","e","/","p","n","g",";","b","a","s","e","6","4",",","A","A","A","A">>,
    <<"h","t","t","p",":","/","/","e","v","i","l",".","n","e","t","/","e","x",".","c","o">>,
    <<"h","t","t","p",":","/","/","e","x",".","c","o","@","e","v","i","l",".","n","e","t","/">>,
    <<"h","t","t","p",":","/","/","c","d","n",".","e","x","a","m","p","l","e",".","c","o","m",":","8","0","/","i">>,
    <<"h","t","t","p","s",":","/","/","E","x","a","m","p","l","e",".","C","o","m","?","x">>,
    <<" ","h","t","t","p",":","/","/","b",".","i","o","#","f">>,
    <<"h","t","t","p",":","/","/","[","e","x",".","c","o","/","a">>,
    <<>>,
    <<"x",":","/","/">>,
    <<"1","h","t","t","p",":","/","/","e","x",".","c","o","/">>,
    <<"h","t","t","p",":","/","/","a",".","b","/","c">> }

(***************************************************************************)
(* urllib.parse.urlsplit, as is_allowed_domain and urljoin use it: leading *)
(* spaces are dropped, a scheme is split off when the text before the      *)
(* first ":" starts with a letter and holds scheme characters only, and a  *)
(* netloc is what follows a leading "//" up to the first of "/", "?", "#". *)
(* An unmatched "[" in the netloc raises ValueError ("Invalid IPv6 URL").  *)
(***************************************************************************)
IsAlpha(c) ==
  \E i \in 1..Len(UpperCase) : c = UpperCase[i] \/ c = LowerCase[i]

scheme_chars(c) == IsAlpha(c) \/ c \in Digits \/ c \in {"+", "-", "."}

\* _splitnetloc(url, 2): the index of the first of "/?#" from position 3 on
NetlocEnd(url) ==
  LET hits == {Find(url, c, 3) : c \in {"/", "?", "#"}} \ {0}
  IN  IF hits = {} THEN Len(url) + 1
      ELSE CHOOSE d \in hits : \A e \in hits : d <= e

\* the end of the path: the index of the first of "?#", or the end
PathEnd(after) ==
  LET cut == {Find(after, c, 1) : c \in {"?", "#"}} \ {0}
  IN  IF cut = {} THEN Len(after) + 1
      ELSE CHOOSE d \in cut : \A e \in cut : d <= e

SplitResult(scheme, netloc, after) ==
  [raises |-> Contains(<<"[">>, netloc) /\ ~ Contains(<<"]">>, netloc),
   scheme |-> scheme,
   netloc |-> netloc,
   path   |-> SubSeq(after, 1, PathEnd(after) - 1),
   tail   |-> Tail0(after, PathEnd(after))]

\* what follows the scheme: "//", a netloc and the rest, or the rest alone
SplitNetloc(scheme, rest) ==
  IF StartsWith(rest, <<"/", "/">>)
  THEN SplitResult(scheme, SubSeq(rest, 3, NetlocEnd(rest) - 1),
                   Tail0(rest, NetlocEnd(rest)))
  ELSE SplitResult(scheme, <<>>, rest)

\* i is the index of the first ":" of url, 0 when it has none
SplitScheme(url, i) ==
  IF /\ i > 1
     /\ IsAlpha(url[1])
     /\ \A j \in 1..(i - 1) : scheme_chars(url[j])
  THEN SplitNetloc(Lower(SubSeq(url, 1, i - 1)), Tail0(url, i + 1))
  ELSE SplitNetloc(<<>>, url)

SplitStripped(url) == SplitScheme(url, Find(url, ":", 1))

urlsplit(url0) == SplitStripped(LStrip(url0))

(***************************************************************************)
(* urllib.parse.urljoin, as line 214 uses it.  A URL with a scheme other   *)
(* than the base's, or with a scheme that takes no relative references     *)
(* (such as data:), is returned as it stands; otherwise the reference is   *)
(* resolved against the base.  raised stands for urlsplit's ValueError.    *)
(***************************************************************************)
S_http == <<"h","t","t","p">>

S_https == <<"h","t","t","p","s">>

S_ftp == <<"f","t","p">>

S_file == <<"f","i","l","e">>

uses_relative == {<<>>, S_http, S_https, S_ftp, S_file}

uses_netloc == {<<>>, S_http, S_https, S_ftp, S_file}

RECURSIVE Join(_, _)
Join(parts, sep) ==
  IF parts = <<>> THEN <<>>
  ELSE IF Len(parts) = 1 THEN parts[1]
  ELSE parts[1] \o <<sep>> \o Join(Tail(parts), sep)

\* the query and the fragment of what urlsplit left after the path
QueryOf(tail) ==
  IF tail # <<>> /\ tail[1] = "?"
  THEN LET h == Find(tail, "#", 1)
       IN  IF h = 0 THEN Tail0(tail, 2) ELSE SubSeq(tail, 2, h - 1)
  ELSE <<>>

FragmentOf(tail) ==
  LET h == Find(tail, "#", 1) IN IF h = 0 THEN <<>> ELSE Tail0(tail, h + 1)

urlunsplit(scheme, netloc, path, query, fragment) ==
  LET p1 == IF netloc # <<>>
               \/ (scheme \in uses_netloc /\ ~ StartsWith(path, <<"/","/">>))
            THEN <<"/","/">> \o netloc
                   \o (IF path # <<>> /\ path[1] # "/" THEN <<"/">> ELSE <<>>)
                   \o path
            ELSE path
      p2 == IF scheme # <<>> THEN scheme \o <<":">> \o p1 ELSE p1
      p3 == IF query # <<>> THEN p2 \o <<"?">> \o query ELSE p2
  IN  IF fragment # <<>> THEN p3 \o <<"#">> \o fragment ELSE p3

\* segments[1:-1] = filter(None, segments[1:-1])
DropEmptyInner(segs) ==
  IF Len(segs) <= 2 THEN segs
  ELSE << segs[1] >>
         \o SelectSeq(SubSeq(segs, 2, Len(segs) - 1), LAMBDA x : x # <<>>)
         \o << segs[Len(segs)] >>

RECURSIVE ResolveDots(_, _)
ResolveDots(segs, acc) ==
  IF segs = <<>> THEN acc
  ELSE IF segs[1] = <<".",".">>
       THEN ResolveDots(Tail(segs),
                        IF acc = <<>> THEN acc ELSE SubSeq(acc, 1, Len(acc) - 1))
  ELSE IF segs[1] = <<".">> THEN ResolveDots(Tail(segs), acc)
  ELSE ResolveDots(Tail(segs), Append(acc, segs[1]))

\* base_parts: the segments of the base path without its last one
BaseParts(bparts0) ==
  IF bparts0[Len(bparts0)] # <<>>
  THEN SubSeq(bparts0, 1, Len(bparts0) - 1) ELSE bparts0

Segments(bpath, path) ==
  IF StartsWith(path, <<"/">>) THEN Split(path, "/")
  ELSE DropEmptyInner(BaseParts(Split(bpath, "/")) \o Split(path, "/"))

ResolvedPath(segments) ==
  IF segments[Len(segments)] \in {<<".">>, <<".",".">>}
  THEN Append(ResolveDots(segments, <<>>), <<>>)
  ELSE ResolveDots(segments, <<>>)

OrRoot(joined) == IF joined = <<>> THEN <<"/">> ELSE joined

MergedPath(bpath, path) == OrRoot(Join(ResolvedPath(Segments(bpath, path)), "/"))

\* b and u are the parts of the base and of the reference
JoinParts(url, b, u, scheme, query, fragment) ==
  IF scheme # b.scheme \/ scheme \notin uses_relative THEN url
  ELSE IF scheme \in uses_netloc /\ u.netloc # <<>>
       THEN urlunsplit(scheme, u.netloc, u.path, query, fragment)
  ELSE IF u.path = <<>>
       THEN urlunsplit(scheme, b.netloc, b.path,
                       IF query # <<>> THEN query ELSE QueryOf(b.tail),
                       fragment)
  ELSE urlunsplit(scheme, b.netloc, MergedPath(b.path, u.path), query, fragment)

JoinSplit(url, b, u) ==
  IF b.raises \/ u.raises THEN [raised |-> TRUE, value |-> <<>>]
  ELSE [raised |-> FALSE,
        value |-> JoinParts(url, b, u,
                            IF u.scheme # <<>> THEN u.scheme ELSE b.scheme,
                            QueryOf(u.tail), FragmentOf(u.tail))]

urljoin(base, url) ==
  IF base = <<>> THEN [raised |-> FALSE, value |-> url]
  ELSE IF url = <<>> THEN [raised |-> FALSE, value |-> base]
  ELSE JoinSplit(url, urlsplit(base), urlsplit(url))

(***************************************************************************)
(* is_allowed_domain (lines 128-142); raised stands for the ValueError     *)
(* urlparse raises, which is_allowed_domain does not catch.                *)
(***************************************************************************)
AnyAllowedIn(domain, allowed_domains) ==
  \E k \in 1..Len(allowed_domains) : Contains(Lower(allowed_domains[k]), domain)

\* lines 139-140, for the parts urlparse gave
DomainAllowed(parsed, allowed_domains) ==
  [raised |-> parsed.raises,
   value  |-> ~ parsed.raises
              /\ AnyAllowedIn(Lower(parsed.netloc), allowed_domains)]

is_allowed_domain(url, allowed_domains) ==
  DomainAllowed(urlsplit(url), allowed_domains)

(***************************************************************************)
(* The pure functions, each applied once to an input drawn from a bounded  *)
(* set.                                                                    *)
(***************************************************************************)
Pending == [kind |-> "pending"]

\* the program itself is not running
RunOff ==
  /\ mode = <<>>
  /\ pc = "off"
  /\ sitemap_urls = <<>>
  /\ si = 0
  /\ loc_tags = <<>>
  /\ futures = <<>>
  /\ broken_images = <<>>
  /\ pl = <<>>
  /\ report = <<>>
  /\ children = <<>>
  /\ root = Pending
  /\ env = <<>>

Returned(v) == [kind |-> "return", value |-> v]

Raised(e) == [kind |-> "raise", error |-> e]

ClassifyInputs ==
  {<<>>} \cup ClassifyFragments
         \cup {a \o b : a \in ClassifyFragments, b \in ClassifyFragments}

AllowLists == {get_allowed_domains(u) : u \in UserInputs}

InitClassify ==
  /\ ALLOWED_IMG_DOMAINS = default_domains
  /\ call \in [fn : {"classify_image_storage"}, url : ClassifyInputs]
  /\ ret = Pending
  /\ RunOff

ClassifyCall ==
  /\ call.fn = "classify_image_storage"
  /\ ret = Pending
  /\ ret' = Returned(classify_image_storage(call.url))
  /\ UNCHANGED << ALLOWED_IMG_DOMAINS, call, runVars >>

SpecClassify == InitClassify /\ [][ClassifyCall]_vars

InitDomain ==
  /\ ALLOWED_IMG_DOMAINS \in AllowLists
  /\ call \in [fn : {"is_allowed_domain"}, url : DomainUrls]
  /\ ret = Pending
  /\ RunOff

DomainCall ==
  /\ call.fn = "is_allowed_domain"
  /\ ret = Pending
  /\ LET r == is_allowed_domain(call.url, ALLOWED_IMG_DOMAINS)
     IN  ret' = IF r.raised THEN Raised("ValueError") ELSE Returned(r.value)
  /\ UNCHANGED << ALLOWED_IMG_DOMAINS, call, runVars >>

SpecDomain == InitDomain /\ [][DomainCall]_vars

(***************************************************************************)
(* C6: classify_image_storage returns the label of the first table entry,  *)
(* in declaration order, whose lowercased pattern is a substring of the    *)
(* lowercased URL, returns "Other" when no pattern matches, and always     *)
(* returns a label (it never raises).                                      *)
(***************************************************************************)
MatchingEntries(url) ==
  {k \in 1..Len(STORAGE_CLASSIFICATION) :
     Contains(Lower(STORAGE_CLASSIFICATION[k].key), Lower(url))}

C6_FirstMatchWins ==
  (call.fn = "classify_image_storage" /\ ret # Pending) =>
    LET m == MatchingEntries(call.url)
    IN  /\ ret.kind = "return"
        /\ IF m = {} THEN ret.value = "Other"
           ELSE \E k \in m : /\ \A j \in m : k <= j
                             /\ ret.value = STORAGE_CLASSIFICATION[k].classification

\* a URL in mixed case that matches two entries, the later one under a
\* different label, has been classified
C6_Witness ==
  /\ call.fn = "classify_image_storage"
  /\ ret # Pending
  /\ call.url # Lower(call.url)
  /\ \E j, k \in MatchingEntries(call.url) :
       /\ j < k
       /\ STORAGE_CLASSIFICATION[j].classification
            # STORAGE_CLASSIFICATION[k].classification
       /\ ret.value = STORAGE_CLASSIFICATION[j].classification

(***************************************************************************)
(* C5 as claimed: for every allow-list the configuration input produces,   *)
(* is_allowed_domain returns true iff the URL's lowercased host contains   *)
(* some allow-list entry, and it returns false for every URL whose host is *)
(* empty.                                                                  *)
(***************************************************************************)
C5_AllowedIffHostContainsEntry ==
  (call.fn = "is_allowed_domain" /\ ret.kind = "return") =>
    LET host == Lower(urlsplit(call.url).netloc)
    IN  /\ ret.value = (\E k \in 1..Len(ALLOWED_IMG_DOMAINS) :
                           Contains(Lower(ALLOWED_IMG_DOMAINS[k]), host))
        /\ (host = <<>> => ret.value = FALSE)

(***************************************************************************)
(* The data URI shortening of lines 217-220.  split(',', 1) gives one part *)
(* when the URL holds no comma, and unpacking it into two names raises     *)
(* ValueError.                                                             *)
(***************************************************************************)
S_data_image == <<"d","a","t","a",":","i","m","a","g","e">>

shorten_data_uri(image_url) ==
  LET c == Find(image_url, ",", 1)
      prefix == SubSeq(image_url, 1, c - 1)
      base64_data == Tail0(image_url, c + 1)
      n == Len(base64_data)
      shortened_base64 ==
        IF n > 40
        THEN SubSeq(base64_data, 1, 20) \o <<".",".",".">>
               \o SubSeq(base64_data, n - 19, n)
        ELSE base64_data
  IN  IF ~ StartsWith(image_url, S_data_image)
      THEN [raised |-> FALSE, value |-> image_url]
      ELSE IF c = 0 THEN [raised |-> TRUE, value |-> <<>>]
      ELSE [raised |-> FALSE, value |-> prefix \o <<",">> \o shortened_base64]

(***************************************************************************)
(* The world the program runs in: what the user types, the pages and       *)
(* images a site serves, and how a request can end.                        *)
(***************************************************************************)
ModeInputs == { <<"s","i","n","g","l","e">>, <<" ","A","L","L">>, <<"x">> }

S_Ex_co == <<"E","x",".","c","o">>

RunUserInputs == { <<"E","x",".","c","o">>, <<"e","x",".","c","o",","," ">> }

PageUrl1 == <<"h","t","t","p",":","/","/","e","x",".","c","o","/","a","r","t","i","c","l","e","/","7">>

PageUrl2 == <<"h","t","t","p","s",":","/","/","b",".","i","o","/","k","b","/">>

PageUrls == { PageUrl1, PageUrl2 }

PageInputs == { <<>>, <<" ","h","t","t","p",":","/","/","e","x",".","c","o","/","a","r","t","i","c","l","e","/","7">>, PageUrl2 }

SitemapInputs == { <<" ">>, <<"h","t","t","p",":","/","/","e","x",".","c","o","/","s","i","t","e","m","a","p",".","x","m","l">> }

ChildLocs == { <<" ","/","s",".","x","m","l"," ">> }

Src_rel == <<"/","a",".","p","n","g">>

Src_cdn == <<"/","/","C","D","N",".","e","x",".","c","o","/","b">>

Src_evil == <<"h","t","t","p",":","/","/","e","v","i","l",".","n","e","t","/","w","p","-","c","o","n","t","e","n","t","/","x",".","p","n","g">>

Src_data_long == <<"d","a","t","a",":","i","m","a","g","e","/","p","n","g",";","b","a","s","e","6","4",",","i","V","B","O","R","w","0","K","G","g","o","A","A","A","A","N","S","U","h","E","U","g","A","A","A","A","E","A","A","A","A","B","C","A","Y","A","A","A","A","f","F","c","S","J","A">>

Src_data_short == <<"d","a","t","a",":","i","m","a","g","e","/","g","i","f",";","b","a","s","e","6","4",",","R","0","l","G">>

Src_data_nocomma == <<"d","a","t","a",":","i","m","a","g","e","/","p","n","g">>

Src_bracket == <<"h","t","t","p",":","/","/","[","e","x",".","c","o","/","a">>

Img(src) == [has_src |-> TRUE, src |-> src]

ImgNoSrc == [has_src |-> FALSE, src |-> <<>>]

\* an element of a page: one that matches the container selector or not,
\* and the <img> elements inside it, in document order
Container(imgs) == [container |-> TRUE, imgs |-> imgs]

Elsewhere(imgs) == [container |-> FALSE, imgs |-> imgs]

Doc_none == << Elsewhere(<< Img(Src_rel) >>) >>

Doc_one ==
  << Elsewhere(<< Img(Src_cdn) >>),
     Container(<< Img(Src_rel), ImgNoSrc, Img(Src_evil) >>) >>

Doc_two ==
  << Container(<< Img(Src_cdn) >>), Container(<< Img(Src_data_long) >>) >>

Doc_data == << Container(<< Img(Src_data_short), Img(Src_data_nocomma) >>) >>

Doc_bad == << Container(<< Img(Src_data_long), Img(Src_bracket) >>) >>

Docs == { Doc_none, Doc_one, Doc_two, Doc_data, Doc_bad }

(***************************************************************************)
(* The text functions, tabulated once over the URLs of this world.         *)
(***************************************************************************)
KnownPageUrls == PageUrls \cup {Strip(typed) : typed \in PageInputs}

KnownSrcs ==
  UNION { UNION { {doc[k].imgs[j].src : j \in 1..Len(doc[k].imgs)}
                  : k \in 1..Len(doc) }
          : doc \in Docs }

\* lines 214-220: the src is resolved against the page URL, then shortened
ShortenJoined(joined) ==
  IF joined.raised THEN joined ELSE shorten_data_uri(joined.value)

ResolveImage(url, src) == ShortenJoined(urljoin(url, src))

Resolved == [url \in KnownPageUrls, src \in KnownSrcs |-> ResolveImage(url, src)]

KnownImageUrls ==
  {Resolved[url, src].value : url \in KnownPageUrls, src \in KnownSrcs}

KnownAllowLists == {get_allowed_domains(u) : u \in UserInputs \cup RunUserInputs}

Policy ==
  [allowed_domains \in KnownAllowLists, url \in KnownImageUrls |->
     is_allowed_domain(url, allowed_domains)]

Storage == [url \in KnownImageUrls |-> classify_image_storage(url)]

\* a request ends in a RequestException or in a response with a status
Exc == [kind |-> "exc", status |-> 0]

Resp(s) == [kind |-> "resp", status |-> s]

ImageStatuses == {200, 299, 300, 404, 405}

FetchStatuses == {200, 304, 404}

Outcomes(statuses) == {Exc} \cup {Resp(s) : s \in statuses}

FetchOutcomes == Outcomes(FetchStatuses)

\* a site that serves every page above and answers with every status above
WholeSite ==
  [page_urls |-> PageUrls, docs |-> Docs, page_outcomes |-> FetchOutcomes,
   image_outcomes |-> Outcomes(ImageStatuses), sitemap_outcomes |-> FetchOutcomes]

\* a site of one page URL that serves one of three pages, and whose image
\* server answers every request with 405
SmallSite ==
  [page_urls |-> {PageUrl1}, docs |-> {Doc_one, Doc_two, Doc_data},
   page_outcomes |-> {Resp(200)}, image_outcomes |-> {Resp(405)},
   sitemap_outcomes |-> FetchOutcomes]

\* the small site serving a page that is checked to its end or one that makes
\* the call raise, and whose sitemaps are served or time out
FairSite ==
  [SmallSite EXCEPT !.docs = {Doc_one, Doc_data},
                    !.sitemap_outcomes = {Resp(200), Exc}]

\* response.raise_for_status(): HTTPError for a 4xx or 5xx status
raise_for_status(status) == 400 <= status /\ status < 600

\* a fetch that only a failure of the transport fails
FetchFailsTransportOnly(o) == o.kind = "exc"

\* lines 194-198, 331-335, 346-350: the fetch ends in a RequestException
FetchFails(o) == o.kind = "exc" \/ raise_for_status(o.status)

\* all sequences over S of length at most n
RECURSIVE SeqsUpTo(_, _)
SeqsUpTo(S, n) ==
  IF n <= 0 THEN { <<>> }
  ELSE LET shorter == SeqsUpTo(S, n - 1)
       IN  shorter \cup {Append(q, x) : q \in shorter, x \in S}

(***************************************************************************)
(* Threads: 0 is the main thread, 1..max_threads are the executor's        *)
(* workers (line 342).  Each runs at most one scrape_and_check_images call *)
(* at a time, described by a frame.                                        *)
(***************************************************************************)
MaxChildren == 2

MaxPages == 3

MaxDispatch == 3

\* an executor with a worker for every task
one_thread_per_task == MaxDispatch

max_threads == 2

MainThread == 0

Workers == 1..max_threads

Threads == {MainThread} \cup Workers

NoReason == [kind |-> "None"]

CSPViolation == [kind |-> "CSP Violation"]

HTTPReason(status) == [kind |-> "HTTP", status |-> status]

NetworkError == [kind |-> "Network Error", detail |-> "RequestException"]

NoCheck ==
  [url |-> <<>>, allowed |-> FALSE, probes |-> <<>>, reason |-> NoReason,
   done |-> FALSE]

IdleFrame ==
  [pc |-> "idle", url |-> <<>>, fut |-> 0, fetched |-> FALSE, doc |-> <<>>,
   images |-> <<>>,
   i |-> 0, image_url |-> <<>>, broken_images |-> <<>>, chk |-> NoCheck,
   reasons |-> <<>>, result |-> Pending]

\* the frame of a call scrape_and_check_images(url, session), at line 192
NewFrame(url, fut) == [IdleFrame EXCEPT !.pc = "fetch", !.url = url, !.fut = fut]

(***************************************************************************)
(* Lines 200-210: the images of a fetched page.  select_one gives the      *)
(* first element that matches the selector, find_all('img', src=True) the  *)
(* images in it that carry a src attribute, in document order.             *)
(***************************************************************************)
select_one(doc) ==
  IF \E k \in 1..Len(doc) : doc[k].container
  THEN << doc[CHOOSE k \in 1..Len(doc) :
                 doc[k].container /\ \A j \in 1..(k - 1) : ~ doc[j].container] >>
  ELSE <<>>

find_all_img_src(element) == SelectSeq(element.imgs, LAMBDA g : g.has_src)

ExtractImages(doc) ==
  LET found == select_one(doc)
  IN  IF found # <<>>
      THEN LET imgs == find_all_img_src(found[1])
           IN  [k \in 1..Len(imgs) |-> imgs[k].src]
      ELSE <<>>

(***************************************************************************)
(* check_image (lines 147-176) and the flagging of lines 222-233.          *)
(***************************************************************************)
\* a range that takes 300 for a success
StatusOkInclusive(status) == 200 <= status /\ status <= 300

\* line 169
StatusOk(status) == 200 <= status /\ status < 300

\* a retry on every client error
HeadNotAllowedAnyClientError(status) == 400 <= status /\ status < 500

\* line 164
HeadNotAllowed(status) == status = 405

\* lines 169-172
StatusVerdict(status) ==
  IF ~ StatusOk(status) THEN HTTPReason(status) ELSE NoReason

\* a verdict that looks at the status alone
OutcomeVerdictStatusOnly(o) == StatusVerdict(o.status)

\* lines 174-176: a RequestException of either request becomes a reason
OutcomeVerdict(o) == IF o.kind = "exc" THEN NetworkError ELSE StatusVerdict(o.status)

\* line 223: "if reason:"; None is the only reason that is false
Truthy(reason) == reason # NoReason

BrokenImage(url, image_url, reason) ==
  [page_url |-> url, image_url |-> image_url, reason |-> reason,
   storage |-> Storage[image_url]]

\* a loop that records every image, whatever its reason
FlaggedAll(f, reason) ==
  [f EXCEPT !.pc = "image",
            !.i = f.i + 1,
            !.broken_images = Append(f.broken_images,
                                     BrokenImage(f.url, f.image_url, reason)),
            !.reasons = Append(f.reasons, reason),
            !.chk = [f.chk EXCEPT !.reason = reason, !.done = TRUE]]

\* lines 222-233 once check_image has returned reason: flag, then loop
Flagged(f, reason) ==
  [f EXCEPT !.pc = "image",
            !.i = f.i + 1,
            !.broken_images = IF Truthy(reason)
                              THEN Append(f.broken_images,
                                          BrokenImage(f.url, f.image_url, reason))
                              ELSE f.broken_images,
            !.reasons = Append(f.reasons, reason),
            !.chk = [f.chk EXCEPT !.reason = reason, !.done = TRUE]]

Probe(f, method, o) ==
  [f EXCEPT !.chk.probes = Append(f.chk.probes, [method |-> method, outcome |-> o])]

\* the call returns the value v, or raises
Returning(f, v) == [f EXCEPT !.pc = "return", !.result = Returned(v)]

Raising(f, e) == [f EXCEPT !.pc = "raise", !.result = Raised(e)]

(***************************************************************************)
(* scrape_and_check_images (lines 181-235), as the set of frames one step  *)
(* of the call leads to.  A call reads and writes its own frame only.      *)
(***************************************************************************)
\* lines 192-210: the page is fetched and its images are extracted
FetchSteps(f) ==
  UNION { IF FetchFails(o)
          THEN { Returning(f, <<>>) }
          ELSE { [f EXCEPT !.pc = "image",
                           !.fetched = TRUE,
                           !.doc = doc,
                           !.images = ExtractImages(doc),
                           !.i = 1] : doc \in env.docs }
          : o \in env.page_outcomes }

\* lines 213-222 and 158-160: the next image is resolved, shortened and
\* tested against the allow-list; line 235 when no image is left
Checking(f, image_url, allowed) ==
  [f EXCEPT !.image_url = image_url,
            !.chk = [NoCheck EXCEPT !.url = image_url, !.allowed = allowed]]

\* a check that probes whatever the policy says
CheckImageEntryProbing(f, image_url, allowed) ==
  IF allowed.raised THEN Raising(f, "ValueError")
  ELSE [Checking(f, image_url, allowed.value) EXCEPT !.pc = "head"]

\* lines 158-160: check_image is entered with the outcome of the policy
CheckImageEntry(f, image_url, allowed) ==
  IF allowed.raised THEN Raising(f, "ValueError")
  ELSE IF ~ allowed.value
       THEN Flagged(Checking(f, image_url, FALSE), CSPViolation)
  ELSE [Checking(f, image_url, TRUE) EXCEPT !.pc = "head"]

\* lines 214-222
ResolvedStep(f, resolved) ==
  IF resolved.raised THEN Raising(f, "ValueError")
  ELSE CheckImageEntry(f, resolved.value,
                       Policy[ALLOWED_IMG_DOMAINS, resolved.value])

ImageSteps(f) ==
  IF f.i > Len(f.images) THEN { Returning(f, f.broken_images) }
  ELSE { ResolvedStep(f, Resolved[f.url, f.images[f.i]]) }

\* lines 163-165 and, unless the status is 405, 168-176
HeadSteps(f) ==
  { LET g == Probe(f, "HEAD", o)
    IN  IF o.kind = "resp" /\ HeadNotAllowed(o.status)
        THEN [g EXCEPT !.pc = "get"]
        ELSE Flagged(g, OutcomeVerdict(o))
    : o \in env.image_outcomes }

\* lines 166-176
GetSteps(f) ==
  { Flagged(Probe(f, "GET", o), OutcomeVerdict(o))
    : o \in env.image_outcomes }

Steps(f) ==
  CASE f.pc = "fetch" -> FetchSteps(f)
    [] f.pc = "image" -> ImageSteps(f)
    [] f.pc = "head" -> HeadSteps(f)
    [] f.pc = "get" -> GetSteps(f)
    [] OTHER -> {}

\* the frames in which a call that stands at f can end
RECURSIVE Finals(_)
Finals(f) ==
  IF f.pc \in {"return", "raise"} THEN {f}
  ELSE UNION {Finals(g) : g \in Steps(f)}

(***************************************************************************)
(* The call on the main thread (line 311), step by step.                   *)
(***************************************************************************)
PageFetch ==
  /\ pl[MainThread].pc = "fetch"
  /\ \E g \in FetchSteps(pl[MainThread]) : pl' = [pl EXCEPT ![MainThread] = g]
  /\ UNCHANGED << ALLOWED_IMG_DOMAINS, call, ret, env, root, mode, pc, sitemap_urls,
                  si, loc_tags, futures, broken_images, report, children >>

ImageStep ==
  /\ pl[MainThread].pc = "image"
  /\ \E g \in ImageSteps(pl[MainThread]) : pl' = [pl EXCEPT ![MainThread] = g]
  /\ UNCHANGED << ALLOWED_IMG_DOMAINS, call, ret, env, root, mode, pc, sitemap_urls,
                  si, loc_tags, futures, broken_images, report, children >>

HeadProbe ==
  /\ pl[MainThread].pc = "head"
  /\ \E g \in HeadSteps(pl[MainThread]) : pl' = [pl EXCEPT ![MainThread] = g]
  /\ UNCHANGED << ALLOWED_IMG_DOMAINS, call, ret, env, root, mode, pc, sitemap_urls,
                  si, loc_tags, futures, broken_images, report, children >>

GetProbe ==
  /\ pl[MainThread].pc = "get"
  /\ \E g \in GetSteps(pl[MainThread]) : pl' = [pl EXCEPT ![MainThread] = g]
  /\ UNCHANGED << ALLOWED_IMG_DOMAINS, call, ret, env, root, mode, pc, sitemap_urls,
                  si, loc_tags, futures, broken_images, report, children >>

(***************************************************************************)
(* The executor (lines 343, 354-357): submitted tasks are taken in the     *)
(* order of submission by whichever worker is free.  A worker's call       *)
(* shares no data with the main thread or the other worker until its       *)
(* result is stored in the future, so it is taken here in one step from    *)
(* its start to its end.                                                   *)
(***************************************************************************)
Future(url, child) ==
  [url |-> url, child |-> child, state |-> "pending", outcome |-> Pending,
   collected |-> FALSE]

PendingFutures == {k \in 1..Len(futures) : futures[k].state = "pending"}

WorkerTake(w) ==
  /\ pl[w].pc = "idle"
  /\ PendingFutures # {}
  /\ LET k == CHOOSE x \in PendingFutures : \A y \in PendingFutures : x <= y
     IN  /\ futures' = [futures EXCEPT ![k].state = "running"]
         /\ pl' = [pl EXCEPT ![w] = NewFrame(futures[k].url, k)]
  /\ UNCHANGED << ALLOWED_IMG_DOMAINS, call, ret, env, root, mode, pc, sitemap_urls,
                  si, loc_tags, broken_images, report, children >>

\* a call whose end is never stored in its future
WorkerRunLost(w) ==
  /\ pl[w].pc = "fetch"
  /\ pl' = [pl EXCEPT ![w] = IdleFrame]
  /\ UNCHANGED << ALLOWED_IMG_DOMAINS, call, ret, env, root, mode, pc, sitemap_urls,
                  si, loc_tags, futures, broken_images, report, children >>

\* the call runs to its end, and the worker stores its result or its
\* exception in the future
WorkerRun(w) ==
  /\ pl[w].pc = "fetch"
  /\ \E r \in {g.result : g \in Finals(pl[w])} :
       futures' = [futures EXCEPT ![pl[w].fut].state = "finished",
                                  ![pl[w].fut].outcome = r]
  /\ pl' = [pl EXCEPT ![w] = IdleFrame]
  /\ UNCHANGED << ALLOWED_IMG_DOMAINS, call, ret, env, root, mode, pc, sitemap_urls,
                  si, loc_tags, broken_images, report, children >>

(***************************************************************************)
(* save_to_csv (lines 273-294).  mkdir at line 285 stands before the try:  *)
(* its exception leaves the function; one raised while the file is opened  *)
(* or written is caught and logged.                                        *)
(***************************************************************************)
SaveOutcomes == {"written", "write_error", "mkdir_error"}

SaveToCsv(data, filename_prefix, outcome) ==
  /\ report' = Append(report, [data |-> data, prefix |-> filename_prefix,
                               outcome |-> outcome])
  /\ pc' = IF outcome = "mkdir_error" THEN "crashed" ELSE "done"

(***************************************************************************)
(* main (lines 376-389) and check_single_page (lines 299-313).             *)
(***************************************************************************)
S_single == <<"s","i","n","g","l","e">>

S_all == <<"a","l","l">>

Main ==
  /\ pc = "main"
  /\ LET m == Lower(Strip(mode))
     IN  pc' = IF m = S_single THEN "single_prompt"
               ELSE IF m = S_all THEN "all_prompt"
               ELSE "done"
  /\ UNCHANGED << ALLOWED_IMG_DOMAINS, call, ret, env, root, mode, sitemap_urls, si,
                  loc_tags, futures, broken_images, pl, report, children >>

SinglePrompt ==
  /\ pc = "single_prompt"
  /\ \E typed \in PageInputs :
       LET page_url == Strip(typed)
       IN  IF page_url = <<>>
           THEN pc' = "done" /\ pl' = pl
           ELSE /\ pc' = "single_scrape"
                /\ pl' = [pl EXCEPT ![MainThread] = NewFrame(page_url, 0)]
  /\ UNCHANGED << ALLOWED_IMG_DOMAINS, call, ret, env, root, mode, sitemap_urls, si,
                  loc_tags, futures, broken_images, report, children >>

\* line 311: the call returns to check_single_page, or its exception
\* leaves check_single_page and main
SingleReturn ==
  /\ pc = "single_scrape"
  /\ pl[MainThread].pc \in {"return", "raise"}
  /\ IF pl[MainThread].pc = "return"
     THEN /\ pc' = "single_save"
          /\ broken_images' = pl[MainThread].result.value
     ELSE /\ pc' = "crashed"
          /\ broken_images' = broken_images
  /\ pl' = [pl EXCEPT ![MainThread] = IdleFrame]
  /\ UNCHANGED << ALLOWED_IMG_DOMAINS, call, ret, env, root, mode, sitemap_urls, si,
                  loc_tags, futures, report, children >>

SingleSave ==
  /\ pc = "single_save"
  /\ \E outcome \in SaveOutcomes :
       SaveToCsv(broken_images, "broken_images_single_page", outcome)
  /\ UNCHANGED << ALLOWED_IMG_DOMAINS, call, ret, env, root, mode, sitemap_urls, si,
                  loc_tags, futures, broken_images, pl, children >>

(***************************************************************************)
(* check_all_pages (lines 318-371).                                        *)
(***************************************************************************)
AllPrompt ==
  /\ pc = "all_prompt"
  /\ \E typed \in SitemapInputs :
       pc' = IF Strip(typed) = <<>> THEN "done" ELSE "root_fetch"
  /\ UNCHANGED << ALLOWED_IMG_DOMAINS, call, ret, env, root, mode, sitemap_urls, si,
                  loc_tags, futures, broken_images, pl, report, children >>

\* a walk that goes on to the child sitemaps whatever the fetch gave
RootFetchGoesOn ==
  /\ pc = "root_fetch"
  /\ \E o \in env.sitemap_outcomes :
       /\ root' = o
       /\ \E locs \in SeqsUpTo(ChildLocs, MaxChildren) :
            /\ sitemap_urls' = [k \in 1..Len(locs) |-> Strip(locs[k])]
            /\ si' = 1
            /\ pc' = "child_loop"
  /\ UNCHANGED << ALLOWED_IMG_DOMAINS, call, ret, env, mode, loc_tags, futures,
                  broken_images, pl, report, children >>

\* lines 330-341
RootFetch ==
  /\ pc = "root_fetch"
  /\ \E o \in env.sitemap_outcomes :
       /\ root' = o
       /\ IF FetchFails(o)
          THEN pc' = "done" /\ UNCHANGED << sitemap_urls, si >>
          ELSE \E locs \in SeqsUpTo(ChildLocs, MaxChildren) :
                 /\ sitemap_urls' = [k \in 1..Len(locs) |-> Strip(locs[k])]
                 /\ si' = 1
                 /\ pc' = "child_loop"
  /\ UNCHANGED << ALLOWED_IMG_DOMAINS, call, ret, env, mode, loc_tags, futures,
                  broken_images, pl, report, children >>

\* what became of the fetch of one child sitemap, and the <loc> texts found
Child(outcome, locs) == [outcome |-> outcome, locs |-> locs]

\* lines 344-353: the next child sitemap is fetched; line 370 after the last
ChildFetch ==
  /\ pc = "child_loop"
  /\ IF si > Len(sitemap_urls)
     THEN /\ pc' = "all_save"
          /\ UNCHANGED << si, loc_tags, children >>
     ELSE \E o \in env.sitemap_outcomes :
            IF FetchFails(o)
            THEN /\ children' = Append(children, Child(o, <<>>))
                 /\ si' = si + 1
                 /\ UNCHANGED << pc, loc_tags >>
            ELSE \E locs \in SeqsUpTo(env.page_urls, IF MaxDispatch - Len(futures) < MaxPages
                                                THEN MaxDispatch - Len(futures)
                                                ELSE MaxPages) :
                   /\ children' = Append(children, Child(o, locs))
                   /\ loc_tags' = locs
                   /\ pc' = "submit"
                   /\ si' = si
  /\ UNCHANGED << ALLOWED_IMG_DOMAINS, call, ret, env, root, mode, sitemap_urls, futures,
                  broken_images, pl, report >>

\* lines 354-357: one executor.submit per <loc>
Submit ==
  /\ pc = "submit"
  /\ IF loc_tags = <<>>
     THEN pc' = "collect" /\ UNCHANGED << futures, loc_tags >>
     ELSE /\ futures' = Append(futures, Future(loc_tags[1], si))
          /\ loc_tags' = Tail(loc_tags)
          /\ pc' = pc
  /\ UNCHANGED << ALLOWED_IMG_DOMAINS, call, ret, env, root, mode, sitemap_urls, si,
                  broken_images, pl, report, children >>

\* the futures of the batch at hand that as_completed has not yielded yet
Uncollected ==
  {k \in 1..Len(futures) : futures[k].child = si /\ ~ futures[k].collected}

\* a collection that keeps the latest result only
CollectedLast(records, outcome) ==
  IF outcome.kind = "return" /\ outcome.value # <<>>
  THEN outcome.value
  ELSE records

\* a collection that an exception empties
CollectedOrReset(records, outcome) ==
  IF outcome.kind = "return" THEN records \o outcome.value ELSE <<>>

\* lines 361-366 for a future that ended in outcome
Collected(records, outcome) ==
  IF outcome.kind = "return" /\ outcome.value # <<>>
  THEN records \o outcome.value
  ELSE records

\* lines 359-366: as_completed yields a finished future
Collect ==
  /\ pc = "collect"
  /\ \E k \in Uncollected :
       /\ futures[k].state = "finished"
       /\ broken_images' = Collected(broken_images, futures[k].outcome)
       /\ futures' = [futures EXCEPT ![k].collected = TRUE]
  /\ UNCHANGED << ALLOWED_IMG_DOMAINS, call, ret, env, root, mode, pc, sitemap_urls, si,
                  loc_tags, pl, report, children >>

\* a loop that moves on without waiting for the batch
BatchDoneEarly ==
  /\ pc = "collect"
  /\ si' = si + 1
  /\ pc' = "child_loop"
  /\ UNCHANGED << ALLOWED_IMG_DOMAINS, call, ret, env, root, mode, sitemap_urls,
                  loc_tags, futures, broken_images, pl, report, children >>

\* line 368: every future of the batch has been yielded
BatchDone ==
  /\ pc = "collect"
  /\ Uncollected = {}
  /\ si' = si + 1
  /\ pc' = "child_loop"
  /\ UNCHANGED << ALLOWED_IMG_DOMAINS, call, ret, env, root, mode, sitemap_urls,
                  loc_tags, futures, broken_images, pl, report, children >>

\* lines 370-371
AllSave ==
  /\ pc = "all_save"
  /\ \E outcome \in SaveOutcomes :
       SaveToCsv(broken_images, "broken_images_all_pages", outcome)
  /\ UNCHANGED << ALLOWED_IMG_DOMAINS, call, ret, env, root, mode, sitemap_urls, si,
                  loc_tags, futures, broken_images, pl, children >>

(***************************************************************************)
(* The program.                                                            *)
(***************************************************************************)
InitRun(site) ==
  /\ ALLOWED_IMG_DOMAINS = get_allowed_domains(S_Ex_co)
  /\ call = [fn |-> "main"]
  /\ ret = Pending
  /\ mode \in ModeInputs
  /\ pc = "main"
  /\ sitemap_urls = <<>>
  /\ si = 0
  /\ loc_tags = <<>>
  /\ futures = <<>>
  /\ broken_images = <<>>
  /\ pl = [t \in Threads |-> IdleFrame]
  /\ report = <<>>
  /\ children = <<>>
  /\ root = Pending
  /\ env = site

Init == InitRun(SmallSite)

InitFair == InitRun(FairSite)

\* one page is checked: mode 'single', on a site that serves every page
InitPage ==
  /\ ALLOWED_IMG_DOMAINS \in {get_allowed_domains(u) : u \in RunUserInputs}
  /\ call = [fn |-> "main"]
  /\ ret = Pending
  /\ mode = S_single
  /\ pc = "main"
  /\ sitemap_urls = <<>>
  /\ si = 0
  /\ loc_tags = <<>>
  /\ futures = <<>>
  /\ broken_images = <<>>
  /\ pl = [t \in Threads |-> IdleFrame]
  /\ report = <<>>
  /\ children = <<>>
  /\ root = Pending
  /\ env = WholeSite

NextPage ==
  \/ Main
  \/ SinglePrompt
  \/ PageFetch
  \/ ImageStep
  \/ HeadProbe
  \/ GetProbe
  \/ SingleReturn
  \/ SingleSave

SpecPage == InitPage /\ [][NextPage]_vars

Next ==
  \/ Main
  \/ SinglePrompt
  \/ SingleReturn
  \/ SingleSave
  \/ AllPrompt
  \/ RootFetch
  \/ ChildFetch
  \/ Submit
  \/ Collect
  \/ BatchDone
  \/ AllSave
  \/ PageFetch
  \/ ImageStep
  \/ HeadProbe
  \/ GetProbe
  \/ \E w \in Workers : WorkerTake(w)
  \/ \E w \in Workers : WorkerRun(w)

Spec == Init /\ [][Next]_vars

\* the steps of the main thread
MainNext ==
  \/ Main
  \/ SinglePrompt
  \/ SingleReturn
  \/ SingleSave
  \/ AllPrompt
  \/ RootFetch
  \/ ChildFetch
  \/ Submit
  \/ Collect
  \/ BatchDone
  \/ AllSave
  \/ PageFetch
  \/ ImageStep
  \/ HeadProbe
  \/ GetProbe

\* every request ends (timeout=10 at lines 163, 166, 194, 331, 346), and a
\* thread that can run is run
FairSpec ==
  /\ InitFair
  /\ [][Next]_vars
  /\ WF_vars(MainNext)
  /\ \A w \in Workers : WF_vars(WorkerTake(w) \/ WorkerRun(w))

(***************************************************************************)
(* The check_image call at hand, or the last one, on the main thread, and  *)
(* the outcomes of its probes.                                             *)
(***************************************************************************)
TheCall == pl[MainThread]

TheCheck == pl[MainThread].chk

ProbeFailed(p) == p.outcome.kind = "exc"

AllAnswered(probes) == \A k \in 1..Len(probes) : ~ ProbeFailed(probes[k])

(***************************************************************************)
(* C1: for a URL for which is_allowed_domain is false, check_image issues  *)
(* no HEAD and no GET at any time of the call, and it returns the reason   *)
(* "CSP Violation".                                                        *)
(***************************************************************************)
C1_DisallowedNeverProbed ==
  LET policy == is_allowed_domain(TheCheck.url, ALLOWED_IMG_DOMAINS)
  IN  (~ policy.raised /\ ~ policy.value) =>
        /\ TheCheck.probes = <<>>
        /\ TheCall.pc \notin {"head", "get"}
        /\ TheCheck.done => TheCheck.reason = [kind |-> "CSP Violation"]

\* check_image has returned for a URL with a host outside the allow-list
C1_Witness ==
  /\ TheCheck.done
  /\ urlsplit(TheCheck.url).netloc # <<>>
  /\ ~ is_allowed_domain(TheCheck.url, ALLOWED_IMG_DOMAINS).value
  /\ TheCheck.reason = [kind |-> "CSP Violation"]
  /\ TheCheck.probes = <<>>

(***************************************************************************)
(* C2: for an allowed URL, check_image issues one HEAD first, then one GET *)
(* if and only if the HEAD was answered with status 405; the verdict comes *)
(* after the last of these probes, and a call issues two probes at most.   *)
(***************************************************************************)
C2_HeadThenGetIff405 ==
  LET probes == TheCheck.probes
      n == Len(probes)
      head405 == n >= 1 /\ probes[1].outcome = [kind |-> "resp", status |-> 405]
  IN  /\ n <= 2
      /\ n >= 1 => probes[1].method = "HEAD"
      /\ n = 2 => probes[2].method = "GET" /\ head405
      /\ (TheCheck.done /\ TheCheck.allowed) => (n >= 1 /\ (n = 2 <=> head405))
      /\ (~ TheCheck.done /\ TheCall.pc = "get") => (n = 1 /\ head405)
      /\ (~ TheCheck.done /\ TheCall.pc = "head") => n = 0

\* a call has ended after a HEAD answered 405 and the GET that followed
C2_Witness ==
  /\ TheCheck.done
  /\ TheCheck.allowed
  /\ Len(TheCheck.probes) = 2
  /\ TheCheck.probes[1].outcome.status = 405
  /\ TheCheck.probes[2].method = "GET"

(***************************************************************************)
(* C3: for an allowed URL whose probes were all answered, check_image      *)
(* returns None if and only if the status of the last response is in       *)
(* 200..299, and "HTTP s" for every other last status s, 405 included.     *)
(***************************************************************************)
C3_VerdictFromFinalStatus ==
  (TheCheck.done /\ TheCheck.allowed /\ AllAnswered(TheCheck.probes)) =>
    LET s == TheCheck.probes[Len(TheCheck.probes)].outcome.status
    IN  /\ (TheCheck.reason = [kind |-> "None"]) <=> (s \in 200..299)
        /\ s \notin 200..299 => TheCheck.reason = [kind |-> "HTTP", status |-> s]

\* the fallback GET was answered 405 itself and the call returned "HTTP 405"
C3_Witness ==
  /\ TheCheck.done
  /\ TheCheck.allowed
  /\ Len(TheCheck.probes) = 2
  /\ TheCheck.probes[2].outcome = [kind |-> "resp", status |-> 405]
  /\ TheCheck.reason = [kind |-> "HTTP", status |-> 405]

(***************************************************************************)
(* C4: a RequestException of the HEAD or of the fallback GET makes         *)
(* check_image return "Network Error: <detail>" as a value: the call of    *)
(* the page goes on with the next image and does not raise, and when it    *)
(* returns, every image of the page has been checked.                      *)
(***************************************************************************)
ProbeFailsInStep ==
  /\ Len(TheCheck'.probes) = Len(TheCheck.probes) + 1
  /\ ProbeFailed(TheCheck'.probes[Len(TheCheck'.probes)])

C4_NetworkFailureIsAReason ==
  /\ [][ProbeFailsInStep =>
          /\ TheCheck'.done
          /\ TheCheck'.reason.kind = "Network Error"
          /\ TheCheck'.reason.detail = "RequestException"
          /\ TheCall'.pc = "image"
          /\ TheCall'.result = Pending
          /\ TheCall'.i = TheCall.i + 1
          /\ TheCall'.reasons = Append(TheCall.reasons, TheCheck'.reason)]_vars
  /\ [](TheCall.pc = "return" /\ TheCall.fetched =>
          Len(TheCall.reasons) = Len(TheCall.images))

\* an image was checked after the check of an earlier image of the same
\* page ended in a network failure
C4_Witness ==
  \E k \in 1..Len(TheCall.reasons) :
    /\ TheCall.reasons[k].kind = "Network Error"
    /\ k < Len(TheCall.reasons)
    /\ TheCall.pc = "return"

(***************************************************************************)
(* C7: for a page whose fetch succeeds, scrape_and_check_images returns    *)
(* one record for each extracted image whose check gave a reason, none for *)
(* an image whose check passed, in document order, each with the reason    *)
(* its check gave.                                                         *)
(***************************************************************************)
FailedChecks(f) ==
  LET failed == {k \in 1..Len(f.images) : f.reasons[k] # [kind |-> "None"]}
      nth(n) == CHOOSE k \in failed : Cardinality({j \in failed : j < k}) = n - 1
  IN  [n \in 1..Cardinality(failed) |->
         [image_url |-> ResolveImage(f.url, f.images[nth(n)]).value,
          reason |-> f.reasons[nth(n)]]]

C7_RecordsAreTheFailedChecks ==
  (TheCall.pc = "return" /\ TheCall.fetched) =>
    /\ Len(TheCall.reasons) = Len(TheCall.images)
    /\ [n \in 1..Len(TheCall.result.value) |->
          [image_url |-> TheCall.result.value[n].image_url,
           reason |-> TheCall.result.value[n].reason]] = FailedChecks(TheCall)

\* a page of two images has returned one record: one check passed, the
\* other gave a reason
C7_Witness ==
  /\ TheCall.pc = "return"
  /\ TheCall.fetched
  /\ Len(TheCall.images) = 2
  /\ Len(TheCall.result.value) = 1
  /\ TheCall.reasons[1] = [kind |-> "None"]

(***************************************************************************)
(* An 'all' run: what the page calls returned, in the order of their       *)
(* submission, and what the run handed to save_to_csv.                     *)
(***************************************************************************)
Occurrences(x, records) ==
  Cardinality({k \in 1..Len(records) : records[k] = x})

SameRecords(a, b) ==
  /\ Len(a) = Len(b)
  /\ \A k \in 1..Len(a) : Occurrences(a[k], a) = Occurrences(a[k], b)

ReturnedList(future) ==
  IF future.outcome.kind = "return" THEN future.outcome.value ELSE <<>>

RECURSIVE ReturnedRecords(_)
ReturnedRecords(n) ==
  IF n = 0 THEN <<>> ELSE ReturnedRecords(n - 1) \o ReturnedList(futures[n])

UrlsOfChild(i) ==
  LET batch == SelectSeq(futures, LAMBDA future : future.child = i)
  IN  [k \in 1..Len(batch) |-> batch[k].url]

AllRunSaved ==
  report # <<>> /\ report[1].prefix = "broken_images_all_pages"

Raises(future) == future.outcome.kind = "raise"

(***************************************************************************)
(* C8: in an 'all' run whose root sitemap was fetched, whatever the order  *)
(* in which the workers run and end, the records handed to save_to_csv are *)
(* the multiset union of the lists that the calls for the pages listed in  *)
(* the fetched child sitemaps returned: one call per listed page, no       *)
(* record lost, none twice.                                                *)
(***************************************************************************)
C8_ReportIsUnionOfPageResults ==
  AllRunSaved =>
    /\ Len(report) = 1
    /\ Len(children) = Len(sitemap_urls)
    /\ \A i \in 1..Len(children) : UrlsOfChild(i) = children[i].locs
    /\ \A k \in 1..Len(futures) :
         futures[k].state = "finished" /\ futures[k].child \in 1..Len(children)
    /\ SameRecords(report[1].data, ReturnedRecords(Len(futures)))

\* two pages of one batch gave records, and the report holds them in
\* another order than that of submission
C8_Witness ==
  /\ AllRunSaved
  /\ \E j, k \in 1..Len(futures) :
       /\ j < k
       /\ futures[j].child = futures[k].child
       /\ ReturnedList(futures[j]) # <<>>
       /\ ReturnedList(futures[k]) # <<>>
  /\ report[1].data # ReturnedRecords(Len(futures))

(***************************************************************************)
(* C9: in an 'all' run, a page call that raises adds no record and the run *)
(* goes on: the records collected so far are kept, the batch is collected  *)
(* to its end, and when the run is over every page has been processed,     *)
(* the records of the pages that returned are in the report and            *)
(* save_to_csv has been called.                                            *)
(***************************************************************************)
CollectsRaisedInStep ==
  \E k \in 1..Len(futures) :
    /\ Raises(futures[k])
    /\ ~ futures[k].collected
    /\ futures'[k].collected

C9_RaisingPageIsSkipped ==
  /\ [][CollectsRaisedInStep =>
          /\ broken_images' = broken_images
          /\ pc' = "collect"
          /\ report' = report]_vars
  /\ []((pc \in {"done", "crashed"} /\ \E k \in 1..Len(futures) : Raises(futures[k]))
          => /\ AllRunSaved
             /\ Len(children) = Len(sitemap_urls)
             /\ \A k \in 1..Len(futures) :
                  /\ futures[k].collected
                  /\ \A n \in 1..Len(ReturnedList(futures[k])) :
                       Occurrences(ReturnedList(futures[k])[n], report[1].data) >= 1)

\* a page raised; another page of its batch and a page of a later batch
\* returned records, and the report holds them
C9_Witness ==
  /\ AllRunSaved
  /\ \E k, j, m \in 1..Len(futures) :
       /\ Raises(futures[k])
       /\ futures[j].child = futures[k].child
       /\ futures[m].child > futures[k].child
       /\ ReturnedList(futures[j]) # <<>>
       /\ ReturnedList(futures[m]) # <<>>
       /\ Len(report[1].data) = Len(ReturnedList(futures[j]))
                                  + Len(ReturnedList(futures[m]))

(***************************************************************************)
(* C10 as claimed: a child sitemap whose fetch ends in a network error or  *)
(* in a status outside 200..299 has no page call dispatched for it.        *)
(***************************************************************************)
C10_NonSuccessChildNeverDispatched ==
  \A i \in 1..Len(children) :
    (children[i].outcome.kind = "exc" \/ children[i].outcome.status \notin 200..299)
      => UrlsOfChild(i) = <<>>

(***************************************************************************)
(* C10, amended: a child sitemap whose fetch ends in a network error or in *)
(* a 4xx or 5xx status has no page call dispatched for it, and that is all *)
(* the failure does: the records collected so far are kept, and every      *)
(* later child sitemap is still fetched and its pages are processed.       *)
(***************************************************************************)
ChildFailed(child) ==
  child.outcome.kind = "exc" \/ child.outcome.status \in 400..599

ChildFailsInStep ==
  /\ Len(children') = Len(children) + 1
  /\ ChildFailed(children'[Len(children')])

C10_FailedChildIsSkipped ==
  /\ [](\A i \in 1..Len(children) :
          ChildFailed(children[i]) => UrlsOfChild(i) = <<>>)
  /\ [][ChildFailsInStep =>
          /\ broken_images' = broken_images
          /\ futures' = futures
          /\ report' = report
          /\ si' = si + 1
          /\ pc' = "child_loop"]_vars
  /\ [](AllRunSaved =>
          /\ Len(children) = Len(sitemap_urls)
          /\ \A i \in 1..Len(children) : UrlsOfChild(i) = children[i].locs
          /\ \A k \in 1..Len(futures) : futures[k].collected)

\* the first child sitemap answered 404; the second was fetched, its page
\* was processed and its records are in the report
C10_Witness ==
  /\ AllRunSaved
  /\ Len(children) = 2
  /\ children[1].outcome = [kind |-> "resp", status |-> 404]
  /\ UrlsOfChild(1) = <<>>
  /\ UrlsOfChild(2) # <<>>
  /\ report[1].data # <<>>

(***************************************************************************)
(* C11 as claimed: in an 'all' run whose root sitemap fetch ends in a      *)
(* network error or in a status outside 200..299, no child sitemap is      *)
(* fetched, no page call is dispatched and save_to_csv is never called.    *)
(***************************************************************************)
C11_NonSuccessRootEndsRun ==
  (root.kind = "exc" \/ (root.kind = "resp" /\ root.status \notin 200..299)) =>
    /\ children = <<>>
    /\ futures = <<>>
    /\ report = <<>>

(***************************************************************************)
(* C11, amended: in an 'all' run whose root sitemap fetch ends in a        *)
(* network error or in a 4xx or 5xx status, the run is over: no child      *)
(* sitemap is fetched, no page call is dispatched or running, and          *)
(* save_to_csv is never called.                                            *)
(***************************************************************************)
RootFailed ==
  root.kind = "exc" \/ (root.kind = "resp" /\ root.status \in 400..599)

C11_FailedRootEndsRun ==
  RootFailed =>
    /\ pc = "done"
    /\ sitemap_urls = <<>>
    /\ children = <<>>
    /\ futures = <<>>
    /\ \A t \in Threads : pl[t] = IdleFrame
    /\ report = <<>>

\* the root sitemap was answered 404 and the run is over
C11_Witness ==
  /\ root = [kind |-> "resp", status |-> 404]
  /\ pc = "done"
  /\ report = <<>>

(***************************************************************************)
(* The end of a run: main has returned, or an exception has left it.       *)
(***************************************************************************)
RunOver == pc \in {"done", "crashed"}

TypedMode == Lower(Strip(mode))

(***************************************************************************)
(* C12 as claimed, for the runs that were given a URL at their prompt: the *)
(* step that ends the run leaves save_to_csv uncalled only when the mode   *)
(* is invalid or the root sitemap fetch failed; in every other run, in     *)
(* single mode or in 'all' mode with the root fetched, save_to_csv has     *)
(* been called exactly once when the run ends, whatever failed for a page, *)
(* an image or a child sitemap.                                            *)
(***************************************************************************)
EndsRunInStep == ~ RunOver /\ RunOver'

C12_WriterSkippedOnlyOnInvalidModeOrRootFailure ==
  [][(EndsRunInStep /\ pc \notin {"single_prompt", "all_prompt"}) =>
       IF TypedMode \notin {S_single, S_all} \/ (TypedMode = S_all /\ RootFailed')
       THEN report' = <<>>
       ELSE Len(report') = 1]_vars

(***************************************************************************)
(* C13 as claimed: whatever fails while the report is produced, be it the  *)
(* creation of the output directory, the opening of the file or the        *)
(* writing of the rows, save_to_csv catches it: once it has been called,   *)
(* the run ends with main returning, and no exception leaves it.           *)
(***************************************************************************)
C13_SaveNeverRaises ==
  report # <<>> => pc = "done"

(***************************************************************************)
(* C14 as claimed: for a fetched page, the images the call checks are the  *)
(* images with a src attribute inside every element that matches the       *)
(* container selector, those of all of them when several match; when none  *)
(* matches, no image is checked, no record is returned and nothing is      *)
(* raised.                                                                 *)
(***************************************************************************)
SrcsIn(element) ==
  {element.imgs[j].src : j \in {n \in 1..Len(element.imgs) : element.imgs[n].has_src}}

SrcsInContainers(doc) ==
  UNION {SrcsIn(doc[k]) : k \in {n \in 1..Len(doc) : doc[n].container}}

C14_ImagesOfEveryContainer ==
  TheCall.fetched =>
    /\ {TheCall.images[k] : k \in 1..Len(TheCall.images)}
         = SrcsInContainers(TheCall.doc)
    /\ SrcsInContainers(TheCall.doc) = {} =>
         /\ TheCall.pc # "raise"
         /\ TheCall.pc = "return" => TheCall.result.value = <<>>

(***************************************************************************)
(* C15 as claimed: for an image whose resolved URL starts with             *)
(* "data:image", the URL that is checked and recorded is the prefix, a     *)
(* comma, the first 20 characters of the payload, "..." and its last 20    *)
(* when the payload, the text after the first comma, is longer than 40,    *)
(* and the URL itself when the payload has 40 characters or fewer; the     *)
(* step never raises.                                                      *)
(***************************************************************************)
JoinedAtHand == urljoin(TheCall.url, TheCall.images[TheCall.i])

DataUriAtHand ==
  /\ TheCall.pc = "image"
  /\ TheCall.i <= Len(TheCall.images)
  /\ ~ JoinedAtHand.raised
  /\ StartsWith(JoinedAtHand.value, S_data_image)

Truncated(u) ==
  LET c == Find(u, ",", 1)
      payload == IF c = 0 THEN <<>> ELSE SubSeq(u, c + 1, Len(u))
      n == Len(payload)
  IN  IF n > 40
      THEN SubSeq(u, 1, c) \o SubSeq(payload, 1, 20) \o <<".", ".", ".">>
             \o SubSeq(payload, n - 19, n)
      ELSE u

C15_DataUriTruncatedNeverRaises ==
  [][(DataUriAtHand /\ TheCall' # TheCall) =>
       /\ TheCall'.pc # "raise"
       /\ TheCall'.image_url = Truncated(JoinedAtHand.value)
       /\ TheCall'.chk.url = Truncated(JoinedAtHand.value)]_vars

(***************************************************************************)
(* C16: in every state of an 'all' run at most 2 page calls are executing, *)
(* however many page URLs a child sitemap lists.                           *)
(***************************************************************************)
Executing == {k \in 1..Len(futures) : futures[k].state = "running"}

BusyThreads == {t \in Threads : pl[t].pc # "idle"}

C16_AtMostTwoPageCalls ==
  TypedMode = S_all =>
    /\ Cardinality(Executing) <= 2
    /\ Cardinality(BusyThreads) <= 2
    /\ {pl[t].fut : t \in BusyThreads} = Executing

\* two page calls are executing while a third page of the same child
\* sitemap waits for a worker
C16_Witness ==
  /\ TypedMode = S_all
  /\ Cardinality(Executing) = 2
  /\ \E k \in PendingFutures : \A j \in Executing : futures[j].child = futures[k].child

(***************************************************************************)
(* C17: in an 'all' run the child sitemaps are processed in the order the  *)
(* root lists them: child i+1 is not fetched, and none of its page calls   *)
(* starts, before every page call dispatched for child i has ended and the *)
(* main thread has collected its result; page calls of two different child *)
(* sitemaps never execute at the same time.                                *)
(***************************************************************************)
C17_BatchesInListingOrder ==
  /\ Len(children) <= Len(sitemap_urls)
  /\ Len(children) \in {si - 1, si} \/ (si = 0 /\ children = <<>>)
  /\ \A k \in 1..Len(futures) :
       /\ futures[k].child \in 1..Len(children)
       /\ futures[k].child < Len(children) =>
            futures[k].state = "finished" /\ futures[k].collected
       /\ futures[k].state # "finished" => futures[k].child = si
       /\ \A j \in 1..(k - 1) : futures[j].child <= futures[k].child
  /\ \A j, k \in Executing : futures[j].child = futures[k].child

\* the second child sitemap has been fetched and one of its pages is being
\* processed, after a page of the first child was collected
C17_Witness ==
  /\ Len(children) = 2
  /\ \E j \in 1..Len(futures) : futures[j].child = 1 /\ futures[j].collected
  /\ \E k \in Executing : futures[k].child = 2

(***************************************************************************)
(* C18 as claimed: within one page call, a failure while one image is      *)
(* handled, of whatever kind, one raised by the URL resolution, by the     *)
(* truncation of a data URI or by the check included, is captured as data: *)
(* the call does not raise, it returns with every image checked, and in    *)
(* single mode the report is still written.                                *)
(***************************************************************************)
C18_ImageFailureNeverAbortsPage ==
  /\ TheCall.pc # "raise"
  /\ (TheCall.pc = "return" /\ TheCall.fetched) =>
       Len(TheCall.reasons) = Len(TheCall.images)
  /\ (TypedMode = S_single /\ pc = "crashed") => report # <<>>

(***************************************************************************)
(* C19: when every request ends and every thread that can run is run, a    *)
(* run terminates; an 'all' run whose root sitemap fetch was attempted     *)
(* ends on the failure of that fetch or goes on to call save_to_csv after  *)
(* the last batch, and a batch that is being collected is collected to its *)
(* end.                                                                    *)
(***************************************************************************)
C19_EveryRunTerminates ==
  /\ <>RunOver
  /\ (root # Pending) ~> (RootFailed \/ AllRunSaved)
  /\ \A i \in 1..MaxChildren :
       (pc = "collect" /\ si = i) ~> (si = i + 1 /\ Uncollected = {})

\* an 'all' run of two batches has called save_to_csv and is over
C19_Witness ==
  /\ RunOver
  /\ AllRunSaved
  /\ \E j, k \in 1..Len(futures) : futures[j].child < futures[k].child

(***************************************************************************)
(* C20 as claimed: when no entry of the allow-list is the empty string,    *)
(* every image of the page whose resolved URL is a data URI, a URL without *)
(* a host, is reported as broken: check_image returns "CSP Violation" for  *)
(* it without a request, and the call appends a record for it whose        *)
(* storage label is the classification of the shortened URL.               *)
(***************************************************************************)
NoEmptyEntry ==
  \A k \in 1..Len(ALLOWED_IMG_DOMAINS) : ALLOWED_IMG_DOMAINS[k] # <<>>

DataUriRecord ==
  [page_url |-> TheCall.url,
   image_url |-> Truncated(JoinedAtHand.value),
   reason |-> CSPViolation,
   storage |-> classify_image_storage(Truncated(JoinedAtHand.value))]

C20_DataUriImagesReportedBroken ==
  [][(NoEmptyEntry /\ DataUriAtHand /\ TheCall' # TheCall) =>
       /\ TheCall'.pc = "image"
       /\ TheCall'.chk.reason = CSPViolation
       /\ TheCall'.chk.probes = <<>>
       /\ TheCall'.broken_images = Append(TheCall.broken_images, DataUriRecord)]_vars

=============================================================================
